---- MODULE Spec2Model ----
(***************************************************************************)
(* Two-heap MedianContainer with lazy deletion                             *)
(* (median_container_heaps.py), run side by side with the bisect-based     *)
(* reference container (median_container_bisect.py) on the same calls.     *)
(*                                                                         *)
(* A heapq list is represented by the ascending sequence of its entries:   *)
(* h[0] of the Python list is Head, heappop is Tail, heappush is a sorted  *)
(* insert, len is Len.  `left` stores negated values, as in the source.    *)
(***************************************************************************)
EXTENDS Integers, Sequences, FiniteSets, TLC

MaxVal == 3
MaxPhys == 6
MaxStairs == 8

Values == 1..MaxVal

(* largest value of the scripted scenarios: range(10, 0, -1) *)
ScenMax == 10

(* keys of the two defaultdicts that the calls of the model can touch *)
Keys == 1..(IF MaxVal > ScenMax THEN MaxVal ELSE ScenMax)

(* ---------------- heapq / bisect primitives on sorted sequences -------- *)

RECURSIVE InsertSorted(_, _)
InsertSorted(h, v) ==
    IF h = <<>> THEN <<v>>
    ELSE IF v <= Head(h) THEN <<v>> \o h
    ELSE <<Head(h)>> \o InsertSorted(Tail(h), v)

heappush(h, v) == InsertSorted(h, v)

(* heappop that leaves the entry on the heap *)
heappop_Keeps(h) == h

heappop(h) == Tail(h)

RECURSIVE Count(_, _)
Count(h, v) ==
    IF h = <<>> THEN 0
    ELSE (IF Head(h) = v THEN 1 ELSE 0) + Count(Tail(h), v)

(* ---------------- the container as a record ---------------------------- *)

NewContainer ==
    [left |-> <<>>, right |-> <<>>, left_size |-> 0, right_size |-> 0,
     delayed |-> [v \in Keys |-> 0], freq |-> [v \in Keys |-> 0],
     n |-> 0, err |-> "none", ret |-> "None"]

(* loop test of _prune_left that also accepts a zero count *)
PruneLeftWhile_NonNeg(s) ==
    s.left # <<>> /\ s.delayed[-Head(s.left)] >= 0

(* the loop test of _prune_left (line 24) *)
PruneLeftWhile(s) ==
    s.left # <<>> /\ s.delayed[-Head(s.left)] > 0

(* the loop body of _prune_left (lines 25-26) *)
PruneLeftBody(s) ==
    LET v == -Head(s.left)
    IN [s EXCEPT !.left = heappop(s.left), !.delayed[v] = @ - 1]

RECURSIVE _prune_left(_)
_prune_left(s) ==
    IF PruneLeftWhile(s) THEN _prune_left(PruneLeftBody(s)) ELSE s

(* the loop test of _prune_right (line 29) *)
PruneRightWhile(s) ==
    s.right # <<>> /\ s.delayed[Head(s.right)] > 0

(* the loop body of _prune_right (lines 30-31) *)
PruneRightBody(s) ==
    LET v == Head(s.right)
    IN [s EXCEPT !.right = heappop(s.right), !.delayed[v] = @ - 1]

RECURSIVE _prune_right(_)
_prune_right(s) ==
    IF PruneRightWhile(s) THEN _prune_right(PruneRightBody(s)) ELSE s

(* the records _prune_left passes through, from entry to exit *)
RECURSIVE PruneLeftRun(_)
PruneLeftRun(s) ==
    <<s>> \o (IF PruneLeftWhile(s) THEN PruneLeftRun(PruneLeftBody(s))
              ELSE <<>>)

(* the records _prune_right passes through, from entry to exit *)
RECURSIVE PruneRightRun(_)
PruneRightRun(s) ==
    <<s>> \o (IF PruneRightWhile(s) THEN PruneRightRun(PruneRightBody(s))
              ELSE <<>>)

(* _rebalance, first branch, lines 38-41 *)
MoveRightToLeft(p) ==
    LET v == Head(p.right)
    IN [p EXCEPT !.right = heappop(p.right),
                 !.left = heappush(p.left, -v),
                 !.right_size = @ - 1,
                 !.left_size = @ + 1]

(* _rebalance, second branch, lines 46-49 *)
MoveLeftToRight(p) ==
    LET v == -Head(p.left)
    IN [p EXCEPT !.left = heappop(p.left),
                 !.right = heappush(p.right, v),
                 !.left_size = @ - 1,
                 !.right_size = @ + 1]

(* heappop on an empty list raises IndexError: the record is returned as   *)
(* it stands at the raise, with err set.                                   *)
_rebalance(s) ==
    IF s.left_size < s.right_size
    THEN LET p == _prune_right(s)
         IN IF p.right = <<>>
            THEN [p EXCEPT !.err = "IndexError"]
            ELSE _prune_right(MoveRightToLeft(p))
    ELSE IF s.left_size - s.right_size > 1
    THEN LET p == _prune_left(s)
         IN IF p.left = <<>>
            THEN [p EXCEPT !.err = "IndexError"]
            ELSE _prune_left(MoveLeftToRight(p))
    ELSE s

(* the records at which _rebalance enters _prune_left (lines 45, 50) *)
RebalancePruneLeftCalls(s) ==
    IF s.left_size >= s.right_size /\ s.left_size - s.right_size > 1
    THEN {s} \cup (IF _prune_left(s).left # <<>>
                   THEN {MoveLeftToRight(_prune_left(s))} ELSE {})
    ELSE {}

(* the records at which _rebalance enters _prune_right (lines 37, 42) *)
RebalancePruneRightCalls(s) ==
    IF s.left_size < s.right_size
    THEN {s} \cup (IF _prune_right(s).right # <<>>
                   THEN {MoveRightToLeft(_prune_right(s))} ELSE {})
    ELSE {}

(* The reference value add and remove compare x against; s is the record   *)
(* after _prune_left.                                                      *)
RefMedian(s, x) ==
    IF s.left # <<>> THEN -Head(s.left)
    ELSE IF s.right # <<>> THEN Head(s.right)
    ELSE x

(* add at the point where it reads the reference median (line 57) *)
AddReadPoint(s) == _prune_left(s)

(* remove at its first call of _prune_left (lines 72-74) *)
RemoveCounted(s, x) ==
    [s EXCEPT !.freq[x] = @ - 1, !.delayed[x] = @ + 1, !.n = @ - 1]

(* remove at the point where it reads the reference median (lines 72-77) *)
RemoveReadPoint(s, x) == _prune_left(RemoveCounted(s, x))

(* add with the routing comparison reversed *)
AddBook_Flipped(s, x) ==
    LET r == IF s.left_size = 0
             THEN [s EXCEPT !.left = heappush(s.left, -x),
                            !.left_size = @ + 1]
             ELSE LET p == _prune_left(s)
                      median == RefMedian(p, x)
                  IN IF x >= median
                     THEN [p EXCEPT !.left = heappush(p.left, -x),
                                    !.left_size = @ + 1]
                     ELSE [p EXCEPT !.right = heappush(p.right, x),
                                    !.right_size = @ + 1]
    IN [r EXCEPT !.freq[x] = @ + 1, !.n = @ + 1]

(* add up to and including self.n += 1 (lines 53-66) *)
AddBook(s, x) ==
    LET r == IF s.left_size = 0
             THEN [s EXCEPT !.left = heappush(s.left, -x),
                            !.left_size = @ + 1]
             ELSE LET p == AddReadPoint(s)
                      median == RefMedian(p, x)
                  IN IF x <= median
                     THEN [p EXCEPT !.left = heappush(p.left, -x),
                                    !.left_size = @ + 1]
                     ELSE [p EXCEPT !.right = heappush(p.right, x),
                                    !.right_size = @ + 1]
    IN [r EXCEPT !.freq[x] = @ + 1, !.n = @ + 1]

add(s, x) == _rebalance(AddBook(s, x))

(* remove bookkeeping that forgets self.n -= 1 *)
RemoveBook_KeepN(s, x) ==
    LET b == [s EXCEPT !.freq[x] = @ - 1, !.delayed[x] = @ + 1]
        p == _prune_left(b)
        median == RefMedian(p, x)
    IN IF x <= median
       THEN [p EXCEPT !.left_size = IF @ - 1 < 0 THEN 0 ELSE @ - 1]
       ELSE [p EXCEPT !.right_size = IF @ - 1 < 0 THEN 0 ELSE @ - 1]

(* remove bookkeeping that forgets self.delayed[x] += 1 *)
RemoveBook_NoDelayed(s, x) ==
    LET b == [s EXCEPT !.freq[x] = @ - 1, !.n = @ - 1]
        p == _prune_left(b)
        median == RefMedian(p, x)
    IN IF x <= median
       THEN [p EXCEPT !.left_size = IF @ - 1 < 0 THEN 0 ELSE @ - 1]
       ELSE [p EXCEPT !.right_size = IF @ - 1 < 0 THEN 0 ELSE @ - 1]

(* remove, present branch, up to the size bookkeeping (lines 72-86) *)
RemoveBook(s, x) ==
    LET p == RemoveReadPoint(s, x)
        median == RefMedian(p, x)
    IN IF x <= median
       THEN [p EXCEPT !.left_size = IF @ - 1 < 0 THEN 0 ELSE @ - 1]
       ELSE [p EXCEPT !.right_size = IF @ - 1 < 0 THEN 0 ELSE @ - 1]

(* remove, present branch, at its call of _rebalance (lines 72-90) *)
RemoveRebalanceEntry(s, x) == _prune_right(_prune_left(RemoveBook(s, x)))

(* remove that tests the total size instead of the count of x *)
remove_ChecksN(s, x) ==
    IF s.n = 0
    THEN [s EXCEPT !.ret = FALSE]
    ELSE LET q == _rebalance(_prune_right(_prune_left(RemoveBook(s, x))))
         IN IF q.err # "none"
            THEN q
            ELSE [_prune_left(q) EXCEPT !.ret = TRUE]

remove(s, x) ==
    IF s.freq[x] = 0
    THEN [s EXCEPT !.ret = FALSE]
    ELSE LET q == _rebalance(RemoveRebalanceEntry(s, x))
         IN IF q.err # "none"
            THEN q
            ELSE [_prune_left(q) EXCEPT !.ret = TRUE]

(* median without the n == 0 guard *)
median_NoEmptyCheck(s) ==
    LET p == _prune_left(s)
    IN IF p.left = <<>>
       THEN [p EXCEPT !.err = "IndexError"]
       ELSE [p EXCEPT !.ret = -Head(p.left)]

(* median that pops the top of Lower instead of peeking at it *)
median_Pops(s) ==
    IF s.n = 0
    THEN [s EXCEPT !.err = "ValueError"]
    ELSE LET p == _prune_left(s)
         IN IF p.left = <<>>
            THEN [p EXCEPT !.err = "IndexError"]
            ELSE [p EXCEPT !.ret = -Head(p.left), !.left = heappop(p.left)]

(* -self.left[0] on an empty list raises IndexError *)
median(s) ==
    IF s.n = 0
    THEN [s EXCEPT !.err = "ValueError"]
    ELSE LET p == _prune_left(s)
         IN IF p.left = <<>>
            THEN [p EXCEPT !.err = "IndexError"]
            ELSE [p EXCEPT !.ret = -Head(p.left)]

(* ---------------- call sites of the pruning loops ---------------------- *)

(* the records at which add(x) enters _prune_left (lines 57, 67) *)
AddPruneLeftCalls(s, x) ==
    (IF s.left_size = 0 THEN {} ELSE {s})
       \cup RebalancePruneLeftCalls(AddBook(s, x))

(* the records at which add(x) enters _prune_right (line 67) *)
AddPruneRightCalls(s, x) == RebalancePruneRightCalls(AddBook(s, x))

(* the records at which remove(x) enters _prune_left (lines 77, 89-92) *)
RemovePruneLeftCalls(s, x) ==
    IF s.freq[x] = 0
    THEN {}
    ELSE LET e == RemoveRebalanceEntry(s, x)
             q == _rebalance(e)
         IN {RemoveCounted(s, x), RemoveBook(s, x)}
               \cup RebalancePruneLeftCalls(e)
               \cup (IF q.err = "none" THEN {q} ELSE {})

(* the records at which remove(x) enters _prune_right (lines 90-91) *)
RemovePruneRightCalls(s, x) ==
    IF s.freq[x] = 0
    THEN {}
    ELSE {_prune_left(RemoveBook(s, x))}
            \cup RebalancePruneRightCalls(RemoveRebalanceEntry(s, x))

(* the records at which median() enters _prune_left (line 98) *)
MedianPruneLeftCalls(s) == IF s.n = 0 THEN {} ELSE {s}

(* ---------------- bisect-based reference container --------------------- *)

RECURSIVE bisect_left(_, _)
bisect_left(l, x) ==
    IF l = <<>> \/ Head(l) >= x THEN 0 ELSE 1 + bisect_left(Tail(l), x)

RECURSIVE bisect_right(_, _)
bisect_right(l, x) ==
    IF l = <<>> \/ Head(l) > x THEN 0 ELSE 1 + bisect_right(Tail(l), x)

(* add that appends instead of inserting in order *)
insort_Append(l, x) == l \o <<x>>

(* bisect.insort: insert at bisect_right *)
insort(l, x) ==
    LET i == bisect_right(l, x)
    IN SubSeq(l, 1, i) \o <<x>> \o SubSeq(l, i + 1, Len(l))

(* list.pop(i) with a 0-based index *)
ListPop(l, i) == SubSeq(l, 1, i) \o SubSeq(l, i + 2, Len(l))

RefRemoveFound(l, x) ==
    LET i == bisect_left(l, x)
    IN ~(i = Len(l) \/ l[i + 1] # x)

RefRemove(l, x) ==
    IF RefRemoveFound(l, x) THEN ListPop(l, bisect_left(l, x)) ELSE l

RefMedianIdx(l) ==
    LET len == Len(l)
    IN IF len % 2 = 1 THEN len \div 2 ELSE len \div 2 - 1

(* the outcome of median(): the exception raised, or the value returned *)
RefMedianOf(l) ==
    IF l = <<>>
    THEN [err |-> "ValueError", ret |-> "None"]
    ELSE [err |-> "none", ret |-> l[RefMedianIdx(l) + 1]]

(* ---------------- lc_70_climbing_stairs.py ------------------------------ *)

(* climb that also stops with 0 at i == n *)
RECURSIVE climb_StopsEarly(_, _)
climb_StopsEarly(i, m) ==
    IF i >= m THEN 0
    ELSE IF i + 1 = m THEN 1
    ELSE climb_StopsEarly(i + 1, m) + climb_StopsEarly(i + 2, m)

RECURSIVE climb(_, _)
climb(i, m) ==
    IF i > m THEN 0
    ELSE IF i = m THEN 1
    ELSE climb(i + 1, m) + climb(i + 2, m)

solve(m) == climb(0, m)

(* ---------------- state ------------------------------------------------ *)

VARIABLES left, right, left_size, right_size, delayed, freq, n,
          a, op, arg, ret, err, scen, pc, probed,
          cs_i, cs_n, cs_call, cs_ret

vars == <<left, right, left_size, right_size, delayed, freq, n,
          a, op, arg, ret, err, scen, pc, probed,
          cs_i, cs_n, cs_call, cs_ret>>

(* the ClimbingStairs call and its result *)
csVars == <<cs_i, cs_n, cs_call, cs_ret>>

(* the two containers and the call driving them *)
mcVars == <<left, right, left_size, right_size, delayed, freq, n,
            a, op, arg, ret, err, scen, pc, probed>>

NoClimb ==
    /\ cs_i = 0
    /\ cs_n = 0
    /\ cs_call = "none"
    /\ cs_ret = 0

Self ==
    [left |-> left, right |-> right, left_size |-> left_size,
     right_size |-> right_size, delayed |-> delayed, freq |-> freq,
     n |-> n, err |-> "none", ret |-> "None"]

Store(s) ==
    /\ left' = s.left
    /\ right' = s.right
    /\ left_size' = s.left_size
    /\ right_size' = s.right_size
    /\ delayed' = s.delayed
    /\ freq' = s.freq
    /\ n' = s.n
    /\ err' = s.err
    /\ ret' = s.ret

Init ==
    /\ left = NewContainer.left
    /\ right = NewContainer.right
    /\ left_size = NewContainer.left_size
    /\ right_size = NewContainer.right_size
    /\ delayed = NewContainer.delayed
    /\ freq = NewContainer.freq
    /\ n = NewContainer.n
    /\ a = <<>>
    /\ op = "init"
    /\ arg = 0
    /\ ret = "None"
    /\ err = "none"
    /\ scen = "free"
    /\ pc = 0
    /\ probed = FALSE
    /\ NoClimb

Add(x) ==
    /\ Len(left) + Len(right) < MaxPhys
    /\ Store(add(Self, x))
    /\ a' = insort(a, x)
    /\ op' = "add"
    /\ arg' = x
    /\ UNCHANGED <<scen, pc, probed>>
    /\ UNCHANGED csVars

Remove(x) ==
    /\ Store(remove(Self, x))
    /\ a' = RefRemove(a, x)
    /\ op' = "remove"
    /\ arg' = x
    /\ UNCHANGED <<scen, pc, probed>>
    /\ UNCHANGED csVars

Median ==
    /\ Store(median(Self))
    /\ a' = a
    /\ op' = "median"
    /\ arg' = 0
    /\ UNCHANGED <<scen, pc, probed>>
    /\ UNCHANGED csVars

Next ==
    \/ \E x \in Values : Add(x)
    \/ \E x \in Values : Remove(x)
    \/ Median

Spec == Init /\ [][Next]_vars

(* ---------------- the scripted scenarios of the tests ------------------- *)

A(x) == <<"add", x>>
R(x) == <<"remove", x>>
M == <<"median", 0>>

(* test_desc_then_delete_range, lines 58-63 *)
ScriptDesc ==
    <<A(10), A(9), A(8), A(7), A(6), A(5), A(4), A(3), A(2), A(1), M,
      R(4), R(5), R(6), M>>

(* test_duplicates_and_empty, lines 31-43 *)
ScriptDup ==
    <<A(5), A(3), A(5), M, R(5), R(5), R(5), M, R(2), R(3), M>>

(* test_duplicates_and_empty, lines 45-51 *)
ScriptOnes ==
    <<A(1), A(1), A(2), A(2), A(2), M, R(2), M, R(1), M>>

Script(sc) ==
    CASE sc = "desc" -> ScriptDesc
      [] sc = "dup" -> ScriptDup
      [] sc = "ones" -> ScriptOnes
      [] sc = "dup_ones" -> ScriptDup \o ScriptOnes
      [] OTHER -> <<>>

Scenarios == {"desc", "dup", "ones", "dup_ones"}

ScenInit ==
    /\ left = NewContainer.left
    /\ right = NewContainer.right
    /\ left_size = NewContainer.left_size
    /\ right_size = NewContainer.right_size
    /\ delayed = NewContainer.delayed
    /\ freq = NewContainer.freq
    /\ n = NewContainer.n
    /\ a = <<>>
    /\ op = "init"
    /\ arg = 0
    /\ ret = "None"
    /\ err = "none"
    /\ scen \in Scenarios
    /\ pc = 0
    /\ probed = FALSE
    /\ NoClimb

NextCall == Script(scen)[pc + 1]

ScenAdd ==
    /\ pc < Len(Script(scen))
    /\ NextCall[1] = "add"
    /\ Store(add(Self, NextCall[2]))
    /\ a' = insort(a, NextCall[2])
    /\ op' = "add"
    /\ arg' = NextCall[2]
    /\ pc' = pc + 1
    /\ probed' = FALSE
    /\ scen' = scen
    /\ UNCHANGED csVars

ScenRemove ==
    /\ pc < Len(Script(scen))
    /\ NextCall[1] = "remove"
    /\ Store(remove(Self, NextCall[2]))
    /\ a' = RefRemove(a, NextCall[2])
    /\ op' = "remove"
    /\ arg' = NextCall[2]
    /\ pc' = pc + 1
    /\ probed' = FALSE
    /\ scen' = scen
    /\ UNCHANGED csVars

ScenMedian ==
    /\ pc < Len(Script(scen))
    /\ NextCall[1] = "median"
    /\ Store(median(Self))
    /\ a' = a
    /\ op' = "median"
    /\ arg' = 0
    /\ pc' = pc + 1
    /\ probed' = FALSE
    /\ scen' = scen
    /\ UNCHANGED csVars

(* an extra remove of a value that is not in the container, between two    *)
(* calls of the script                                                     *)
ProbeRemoveAbsent(y) ==
    /\ freq[y] = 0
    /\ Store(remove(Self, y))
    /\ a' = RefRemove(a, y)
    /\ op' = "remove"
    /\ arg' = y
    /\ probed' = TRUE
    /\ UNCHANGED <<scen, pc>>
    /\ UNCHANGED csVars

ScenNext ==
    \/ ScenAdd
    \/ ScenRemove
    \/ ScenMedian
    \/ \E y \in 1..ScenMax : ProbeRemoveAbsent(y)

SpecScen == ScenInit /\ [][ScenNext]_vars

(* Every record at which a call made in the current state enters a       *)
(* pruning loop.                                                          *)
PruneLeftCalls ==
    MedianPruneLeftCalls(Self)
       \cup UNION {RemovePruneLeftCalls(Self, x) : x \in Values}
       \cup (IF Len(left) + Len(right) < MaxPhys
             THEN UNION {AddPruneLeftCalls(Self, x) : x \in Values}
             ELSE {})

PruneRightCalls ==
    UNION {RemovePruneRightCalls(Self, x) : x \in Values}
       \cup (IF Len(left) + Len(right) < MaxPhys
             THEN UNION {AddPruneRightCalls(Self, x) : x \in Values}
             ELSE {})

(* ---------------- calls of ClimbingStairs ------------------------------- *)

ClimbInit ==
    /\ left = NewContainer.left
    /\ right = NewContainer.right
    /\ left_size = NewContainer.left_size
    /\ right_size = NewContainer.right_size
    /\ delayed = NewContainer.delayed
    /\ freq = NewContainer.freq
    /\ n = NewContainer.n
    /\ a = <<>>
    /\ op = "init"
    /\ arg = 0
    /\ ret = "None"
    /\ err = "none"
    /\ scen = "free"
    /\ pc = 0
    /\ probed = FALSE
    /\ cs_i \in 0..(MaxStairs + 2)
    /\ cs_n \in 0..MaxStairs
    /\ cs_call = "none"
    /\ cs_ret = 0

CallClimb ==
    /\ cs_call = "none"
    /\ cs_ret' = climb(cs_i, cs_n)
    /\ cs_call' = "climb"
    /\ UNCHANGED <<cs_i, cs_n>>
    /\ UNCHANGED mcVars

CallSolve ==
    /\ cs_call = "none"
    /\ cs_ret' = solve(cs_n)
    /\ cs_call' = "solve"
    /\ UNCHANGED <<cs_i, cs_n>>
    /\ UNCHANGED mcVars

ClimbNext ==
    \/ CallClimb
    \/ CallSolve

SpecClimb == ClimbInit /\ [][ClimbNext]_vars

(* The k-th call of the script has just returned. *)
After(sc, k) == scen = sc /\ pc = k /\ ~probed

Returned(v) == err = "none" /\ ret = v

TypeOK ==
    /\ left_size \in Nat
    /\ right_size \in Nat
    /\ n \in Int
    /\ err \in {"none", "ValueError", "IndexError"}

(* ---------------- vocabulary of the properties ------------------------- *)

(* Lower median of a sorted sequence: 0-based index floor((len-1)/2). *)
LowerMedian(l) == l[((Len(l) - 1) \div 2) + 1]

(* The last call ran to its end: it returned, or median raised "empty". *)
Completed == err # "IndexError"

(* Both partitions after pruning. *)
PrunedBoth == _prune_right(_prune_left(Self))

Stale == Len(left) + Len(right) > n

(* C1: whenever the reference multiset is non-empty, median() returns the  *)
(* lower median of the sorted reference.                                   *)
C1_MedianIsLowerMedian ==
    (op = "median" /\ a # <<>>) => (err = "none" /\ ret = LowerMedian(a))

(* C2: remove(x) returns true iff x occurs in the reference at call time;  *)
(* when it returns true freq[x] drops by one and no other count changes.   *)
C2_RemoveCorrect ==
    [][op' = "remove" =>
         /\ (err' = "none" /\ ret' = TRUE) <=> (Count(a, arg') > 0)
         /\ (err' = "none" /\ ret' = TRUE) =>
                freq' = [freq EXCEPT ![arg'] = @ - 1]]_vars

(* C3: with n > 0 median() returns a value; its only failure is the        *)
(* empty-container error, raised only when n = 0.                          *)
C3_MedianFailsOnlyEmpty ==
    op = "median" =>
        /\ n > 0 => err = "none"
        /\ err # "none" => (err = "ValueError" /\ n = 0)

(* C4: add(x) and remove(x) never raise. *)
C4_AddRemoveTotal ==
    op \in {"add", "remove"} => err = "none"

(* C5: with n = 0 (fresh, or emptied with stale entries left behind)       *)
(* median() raises the empty-container error and remove(x) returns false.  *)
C5_EmptyState ==
    [][n = 0 =>
         /\ op' = "median" => err' = "ValueError"
         /\ op' = "remove" => (err' = "none" /\ ret' = FALSE)]_vars

C5_Witness ==
    /\ op = "median"
    /\ err = "ValueError"
    /\ n = 0
    /\ left_size + right_size > 0

(* C6: n equals the number of elements of the replayed reference multiset. *)
C6_SizeConsistency == n = Len(a)

C6_Witness ==
    /\ op = "remove"
    /\ err = "none"
    /\ ret = TRUE
    /\ n = 2
    /\ Stale

(* C7: after every completed call left_size - right_size is 0 or 1. *)
C7_Balance ==
    Completed => (left_size - right_size) \in {0, 1}

(* C8: after every completed call left_size + right_size = n. *)
C8_SizesSumToN ==
    Completed => left_size + right_size = n

(* C9: after every completed call, once both partitions are pruned, if     *)
(* both are non-empty then max(Lower) <= min(Upper).                       *)
C9_PartitionOrder ==
    Completed =>
        LET p == PrunedBoth
        IN (p.left # <<>> /\ p.right # <<>>) => -Head(p.left) <= Head(p.right)

C9_Witness ==
    /\ op = "remove"
    /\ err = "none"
    /\ ret = TRUE
    /\ Stale
    /\ PrunedBoth.left # <<>>
    /\ PrunedBoth.right # <<>>
    /\ -Head(PrunedBoth.left) = Head(PrunedBoth.right)

(* C10: for every value v, the physical entries of v in Lower and Upper    *)
(* minus delayed[v] equal freq[v].                                         *)
C10_Ledger ==
    \A v \in Keys :
        Count(left, -v) + Count(right, v) - delayed[v] = freq[v]

C10_Witness ==
    /\ op = "remove"
    /\ err = "none"
    /\ \E v \in Values : delayed[v] > 0 /\ freq[v] > 0

(* C11: add(10), ..., add(1), then median() = 5; remove(4), remove(5),     *)
(* remove(6) return true and median() = 7.                                 *)
C11_DescThenDeleteRange ==
    /\ After("desc", 11) => Returned(5)
    /\ (\E k \in 12..14 : After("desc", k)) => Returned(TRUE)
    /\ After("desc", 15) => Returned(7)

(* C12: add(5), add(3), add(5), median() = 5; remove(5) twice true, and   *)
(* the median is then 3; remove(5) false, remove(2) false, remove(3)       *)
(* true; then the container is empty and median() raises the               *)
(* empty-container error.  The calls are made in the order of the test,    *)
(* which asks for the median after the third remove(5).                    *)
C12_DuplicatesAndEmpty ==
    /\ After("dup", 4) => Returned(5)
    /\ (\E k \in {5, 6, 10} : After("dup", k)) => Returned(TRUE)
    /\ (After("dup", 6) /\ err = "none") =>
          (median(Self).err = "none" /\ median(Self).ret = 3)
    /\ (\E k \in {7, 9} : After("dup", k)) => Returned(FALSE)
    /\ After("dup", 8) => Returned(3)
    /\ After("dup", 10) => n = 0
    /\ After("dup", 11) => err = "ValueError"

(* C13: add(1), add(1), add(2), add(2), add(2), median() = 2; remove(2)    *)
(* true, median() = 1; remove(1) true, median() = 2; on a fresh container  *)
(* and on one that was filled and emptied before.                          *)
C13_OnesAndTwos ==
    \A sc \in {"ones", "dup_ones"} :
        LET base == IF sc = "ones" THEN 0 ELSE Len(ScriptDup)
        IN /\ After(sc, base + 6) => Returned(2)
           /\ (\E k \in {7, 9} : After(sc, base + k)) => Returned(TRUE)
           /\ After(sc, base + 8) => Returned(1)
           /\ After(sc, base + 10) => Returned(2)

(* C14: remove(x) with freq[x] = 0 returns false and leaves n, the sizes,  *)
(* every count and the physical contents of both partitions unchanged.     *)
C14_RemoveAbsentNoOp ==
    [][(op' = "remove" /\ freq[arg'] = 0) =>
         /\ err' = "none"
         /\ ret' = FALSE
         /\ UNCHANGED <<left, right, left_size, right_size,
                        delayed, freq, n>>]_vars

C14_Witness ==
    /\ op = "remove"
    /\ err = "none"
    /\ ret = FALSE
    /\ freq[arg] = 0
    /\ n > 0
    /\ Stale

(* A suffix of h, as left by popping tops. *)
IsSuffix(t, h) ==
    Len(t) <= Len(h) /\ t = SubSeq(h, Len(h) - Len(t) + 1, Len(h))

(* C15: median() leaves n, the sizes and every freq unchanged; it only     *)
(* pops stale tops of Lower, each against one unit of delayed; and a       *)
(* median() right after a median() gives the same result.                  *)
C15_MedianPureRead ==
    [][op' = "median" =>
         /\ UNCHANGED <<n, left_size, right_size, freq, right>>
         /\ IsSuffix(left', left)
         /\ \A v \in Keys :
               /\ delayed'[v] <= delayed[v]
               /\ Count(left, -v) - Count(left', -v)
                      = delayed[v] - delayed'[v]
         /\ op = "median" =>
               /\ err' = err
               /\ err = "none" => ret' = ret]_vars

C15_Witness ==
    /\ op = "median"
    /\ err = "none"
    /\ n >= 2
    /\ Stale
    /\ ret = LowerMedian(a)

(* The top that RefMedian reads at p carries delayed credit. *)
ReadsStaleTop(p) ==
    IF p.left # <<>> THEN p.delayed[-Head(p.left)] > 0
    ELSE IF p.right # <<>> THEN p.delayed[Head(p.right)] > 0
    ELSE FALSE

(* C16: the top that add or remove reads as reference median (Lower's, or  *)
(* Upper's when Lower is physically empty) has no delayed credit.          *)
C16_ReferenceTopNotStale ==
    /\ left_size # 0 => ~ReadsStaleTop(AddReadPoint(Self))
    /\ \A x \in Values :
          freq[x] > 0 => ~ReadsStaleTop(RemoveReadPoint(Self, x))

(* C17: at entry to add, left_size = 0 implies n = 0 and right_size = 0.   *)
C17_DirectBranchOnlyWhenEmpty ==
    left_size = 0 => (n = 0 /\ right_size = 0)

(* C18: after every completed call left_size <= len(left) and              *)
(* right_size <= len(right).                                               *)
C18_LogicalWithinPhysical ==
    Completed => (left_size <= Len(left) /\ right_size <= Len(right))

(* remove(x) would clamp the size it decrements. *)
ClampFires(s, x) ==
    LET p == RemoveReadPoint(s, x)
    IN IF x <= RefMedian(p, x) THEN p.left_size < 1 ELSE p.right_size < 1

(* C19: whenever remove(x) finds x present, the size it decrements is at   *)
(* least 1, so the floor at 0 never takes effect.                          *)
C19_FloorNeverTakesEffect ==
    \A x \in Values : freq[x] > 0 => ~ClampFires(Self, x)

Diff(s) == s.left_size - s.right_size

(* _rebalance entered at e: entry difference in -1..2, the sizes move by   *)
(* at most one unit between the partitions and no more than one physical   *)
(* entry is gained by either side, and when it returns the difference is   *)
(* 0 or 1.                                                                 *)
RebalanceOK(e) ==
    LET q == _rebalance(e)
    IN /\ Diff(e) \in {-1, 0, 1, 2}
       /\ q.left_size + q.right_size = e.left_size + e.right_size
       /\ q.left_size - e.left_size \in {-1, 0, 1}
       /\ Len(q.left) <= Len(e.left) + 1
       /\ Len(q.right) <= Len(e.right) + 1
       /\ Len(q.left) + Len(q.right) <= Len(e.left) + Len(e.right)
       /\ q.err = "none" => Diff(q) \in {0, 1}

(* C20: at every entry to _rebalance, from add or from remove, the         *)
(* difference is in {-1, 0, 1, 2}, at most one element crosses and the     *)
(* difference on exit is 0 or 1.                                           *)
C20_RebalanceOneStep ==
    \A x \in Values :
        /\ RebalanceOK(AddBook(Self, x))
        /\ freq[x] > 0 => RebalanceOK(RemoveRebalanceEntry(Self, x))

(* A record handed to the next call: no pending exception or result. *)
Fresh(s) == [s EXCEPT !.err = "none", !.ret = "None"]

(* C21: in every non-empty state and for every x, add(x) followed by       *)
(* remove(x) returns true, restores n and every freq, and median()         *)
(* afterwards gives what it would have given before the add.               *)
C21_AddRemoveRoundTrip ==
    n > 0 =>
      \A x \in Values :
        LET s1 == add(Self, x)
            s2 == remove(Fresh(s1), x)
            m0 == median(Self)
            m2 == median(Fresh(s2))
        IN /\ s1.err = "none"
           /\ s2.err = "none"
           /\ s2.ret = TRUE
           /\ s2.n = n
           /\ s2.freq = freq
           /\ m2.err = m0.err
           /\ m0.err = "none" => m2.ret = m0.ret

IsSorted(l) == \A i \in 1..(Len(l) - 1) : l[i] <= l[i + 1]

(* C23: the bisect container keeps its list sorted; remove(x) deletes      *)
(* exactly one occurrence of x when present and otherwise returns false    *)
(* and leaves the list unchanged; median() returns the element at 0-based  *)
(* index floor((n-1)/2).                                                   *)
C23_BisectContainer ==
    [][/\ IsSorted(a')
       /\ op' = "add" =>
             /\ Len(a') = Len(a) + 1
             /\ \A v \in Keys :
                   Count(a', v) = Count(a, v) + (IF v = arg' THEN 1 ELSE 0)
       /\ op' = "remove" =>
             /\ RefRemoveFound(a, arg') <=> (Count(a, arg') > 0)
             /\ ~RefRemoveFound(a, arg') => a' = a
             /\ RefRemoveFound(a, arg') =>
                   /\ Len(a') = Len(a) - 1
                   /\ \A v \in Keys :
                         Count(a', v)
                            = Count(a, v) - (IF v = arg' THEN 1 ELSE 0)
       /\ a' = <<>> => RefMedianOf(a').err = "ValueError"
       /\ a' # <<>> =>
             /\ RefMedianIdx(a') = (Len(a') - 1) \div 2
             /\ RefMedianOf(a').err = "none"
             /\ RefMedianOf(a').ret = LowerMedian(a')]_vars

C23_Witness ==
    /\ op = "remove"
    /\ Len(a) = 4
    /\ Count(a, arg) = 1
    /\ \E i \in 1..3 : a[i] = a[i + 1]
    /\ RefMedianOf(a).err = "none"
    /\ RefMedianOf(a).ret = a[2]

(* Ordered sequences of k steps of size 1 and 2 that sum to m. *)
StepSeqs(m, k) ==
    {f \in [1..k -> {1, 2}] : Cardinality({j \in 1..k : f[j] = 2}) + k = m}

(* Number of ordered sequences of steps of size 1 and 2 that sum to m. *)
RECURSIVE WaysUpTo(_, _)
WaysUpTo(m, k) ==
    IF k < 0 THEN 0 ELSE Cardinality(StepSeqs(m, k)) + WaysUpTo(m, k - 1)

Ways(m) == WaysUpTo(m, m)

(* f(0) = 1, f(1) = 1, f(m) = f(m-1) + f(m-2) *)
RECURSIVE StairsF(_)
StairsF(m) == IF m <= 1 THEN 1 ELSE StairsF(m - 1) + StairsF(m - 2)

(* C25: solve(n) returns the number of ordered sequences of steps 1 and 2  *)
(* that sum to n, which is f(n); climb(i, n) is 0 when i > n and 1 when    *)
(* i = n.                                                                  *)
C25_ClimbingStairs ==
    /\ cs_call = "solve" => (cs_ret = Ways(cs_n) /\ cs_ret = StairsF(cs_n))
    /\ cs_call = "climb" =>
          /\ cs_i > cs_n => cs_ret = 0
          /\ cs_i = cs_n => cs_ret = 1

C25_Witness ==
    /\ cs_call = "solve"
    /\ cs_n = 5
    /\ cs_ret = 8

(* One iteration of a pruning loop, from record r to record t, on the     *)
(* partition h: it pops the top of h, whose value v had delayed[v] > 0,   *)
(* and takes exactly one from delayed[v].                                 *)
PruneIteration(hr, ht, dr, dt, v) ==
    /\ hr # <<>>
    /\ ht = Tail(hr)
    /\ dr[v] > 0
    /\ dt = [dr EXCEPT ![v] = dr[v] - 1]

PruneLeftOK(e) ==
    LET run == PruneLeftRun(e)
        p == run[Len(run)]
    IN /\ p = _prune_left(e)
       /\ p.left = <<>> \/ p.delayed[-Head(p.left)] = 0
       /\ \A k \in 1..(Len(run) - 1) :
             PruneIteration(run[k].left, run[k + 1].left,
                            run[k].delayed, run[k + 1].delayed,
                            -Head(run[k].left))
       /\ \A k \in 1..Len(run) : \A v \in Keys : run[k].delayed[v] >= 0

PruneRightOK(e) ==
    LET run == PruneRightRun(e)
        p == run[Len(run)]
    IN /\ p = _prune_right(e)
       /\ p.right = <<>> \/ p.delayed[Head(p.right)] = 0
       /\ \A k \in 1..(Len(run) - 1) :
             PruneIteration(run[k].right, run[k + 1].right,
                            run[k].delayed, run[k + 1].delayed,
                            Head(run[k].right))
       /\ \A k \in 1..Len(run) : \A v \in Keys : run[k].delayed[v] >= 0

(* C24: every run of a pruning loop ends with its partition empty or with *)
(* a top whose delayed count is 0; each iteration pops exactly one entry  *)
(* whose value had a positive delayed count and decrements that count by  *)
(* exactly one; no delayed count is ever negative.                        *)
C24_PrunePostcondition ==
    /\ \A v \in Keys : delayed[v] >= 0
    /\ \A e \in PruneLeftCalls : PruneLeftOK(e)
    /\ \A e \in PruneRightCalls : PruneRightOK(e)

C24_Witness ==
    /\ \E e \in PruneLeftCalls : Len(PruneLeftRun(e)) >= 3
    /\ \E e \in PruneRightCalls : Len(PruneRightRun(e)) >= 2

(* C22: every call of add, remove and median returns or raises; each run  *)
(* of a pruning loop makes at most as many iterations as its partition    *)
(* has physical entries on entry.                                         *)
C22_PruneIterationBound ==
    /\ \A e \in PruneLeftCalls : Len(PruneLeftRun(e)) - 1 <= Len(e.left)
    /\ \A e \in PruneRightCalls : Len(PruneRightRun(e)) - 1 <= Len(e.right)
    /\ op \in {"add", "remove", "median"} =>
          err \in {"none", "ValueError", "IndexError"}

C22_Witness ==
    /\ \E e \in PruneLeftCalls :
          Len(e.left) >= 2 /\ Len(PruneLeftRun(e)) - 1 = Len(e.left)
    /\ \E e \in PruneRightCalls :
          Len(PruneRightRun(e)) >= 2

====
